---- MODULE Spec2Model ----
(***************************************************************************)
(* Memory layer of the character chat application: ProfileManager          *)
(* (src/profile_manager.py) on top of SupabaseManager.load_profile /       *)
(* save_profile (src/supabase_manager.py).                                 *)
(*                                                                         *)
(* A Python string is a sequence of tokens.  The letters "a" "b" "A" "B",  *)
(* the colon ":" and the blank " " are single characters.  Every other     *)
(* token stands for a run of characters none of which is one of those six  *)
(* and which no other token shares: a date "2026/11/05", a word "k17",     *)
(* the marker "[youyaku]" (the four characters of the summary marker       *)
(* before its blank), "ken-no", "dekigoto" ... (the Japanese words of the  *)
(* fallback summary).  Substring, equality, lower() and split(": ") on     *)
(* token sequences are then what they are on the strings.                  *)
(***************************************************************************)
EXTENDS Integers, Sequences, FiniteSets, TLC

VARIABLES profile, db, store_up, today, last, steps,
          messages, conversations, current_character, other

vars == <<profile, db, store_up, today, last, steps,
          messages, conversations, current_character, other>>

\* st.session_state.messages and current_character, the stored transcripts
chat_vars == <<messages, conversations, current_character>>

\* ------------------------------------------------------------- bounds
MaxSteps == 2

\* ------------------------------------------------- program constants
SkipThreshold == 10
SummarizeThreshold == 50
KeepNewest == 20
MinMessages == 4
ExtractEvery == 5
OptimizeEvery == 50

\* ------------------------------------------------------------ strings
LowerChar(c) == CASE c = "A" -> "a" [] c = "B" -> "b" [] OTHER -> c

Lower(s) == [i \in 1..Len(s) |-> LowerChar(s[i])]

IsSpace(c) == c = " "

RECURSIVE LStrip(_)
LStrip(s) == IF s # <<>> /\ IsSpace(Head(s)) THEN LStrip(Tail(s)) ELSE s

RECURSIVE RStrip(_)
RStrip(s) ==
    IF s # <<>> /\ IsSpace(s[Len(s)]) THEN RStrip(SubSeq(s, 1, Len(s) - 1)) ELSE s

Strip(s) == RStrip(LStrip(s))

\* Python's  needle in hay  on strings
Contains(hay, needle) ==
    \E i \in 1..(Len(hay) - Len(needle) + 1) :
        SubSeq(hay, i, i + Len(needle) - 1) = needle

\* Python's  x in xs  on lists
InList(x, xs) == \E i \in 1..Len(xs) : xs[i] = x

Sep == <<":", " ">>

\* s.split(": ", 1)[1], for s containing ": "
SplitAfterFirst(s) ==
    LET hits == {i \in 1..(Len(s) - 1) : SubSeq(s, i, i + 1) = Sep}
        first == CHOOSE i \in hits : \A j \in hits : i <= j
    IN  SubSeq(s, first + 2, Len(s))

\* a value that is not a string (a JSON number in an extraction response)
NotAString == <<"#number">>

IsStr(x) == x # NotAString

\* ------------------------------------------------------------ domains
Characters == {"Aria", "Luna"}

\* the memory types (line 359)
Kinds == {"topics", "events", "notes"}

PreferenceTypes == {"likes", "dislikes"}

\* datetime.now(JST).strftime("%Y/%m/%d") on two successive days
Dates == <<"2026/11/05", "2026/11/06">>

None == "None"

EmptyDict == [k \in {} |-> <<>>]

DictSet(d, key, value) ==
    [k \in (DOMAIN d) \cup {key} |-> IF k = key THEN value ELSE d[k]]

DictDel(d, key) == [k \in (DOMAIN d) \ {key} |-> d[k]]

RemoveAt(xs, i) == SubSeq(xs, 1, i - 1) \o SubSeq(xs, i + 1, Len(xs))

\* list.remove(x): the first occurrence
RemoveFirst(xs, x) ==
    RemoveAt(xs, CHOOSE i \in 1..Len(xs) : xs[i] = x /\ \A j \in 1..(i - 1) : xs[j] # x)

\* ------------------------------------------------------ document store
\* the rows of user_profiles for this user: <<>> or <<profile_data>>
DefaultProfile ==
    [basic_info |-> EmptyDict,
     preferences |-> [likes |-> <<>>, dislikes |-> <<>>],
     important_events |-> <<>>,
     notes |-> <<>>,
     last_updated |-> None]

\* save_profile inserting the row instead of upserting it: the insert of a
\* second row for the user fails, and the failure is swallowed
save_profile_insert_only(profile_data, rows, ok, now) ==
    LET stamped == [profile_data EXCEPT !.last_updated = now]
    IN  [profile |-> stamped,
         db |-> IF ok /\ rows = <<>> THEN <<stamped>> ELSE rows,
         ret |-> ok /\ rows = <<>>]

\* save_profile: stamps last_updated on the caller's dict, then upserts the
\* whole document; a failing upsert is swallowed and reported as False.
save_profile(profile_data, rows, ok, now) ==
    LET stamped == [profile_data EXCEPT !.last_updated = now]
    IN  [profile |-> stamped,
         db |-> IF ok THEN <<stamped>> ELSE rows,
         ret |-> ok]

load_profile(rows, load_ok, ok, now) ==
    IF ~load_ok
    THEN [profile |-> DefaultProfile, db |-> rows]
    ELSE IF Len(rows) > 0
         THEN [profile |-> rows[1], db |-> rows]
         ELSE LET s == save_profile(DefaultProfile, rows, ok, now)
              IN  [profile |-> s.profile, db |-> s.db]

EmptyBucket == [topics |-> <<>>, events |-> <<>>, notes |-> <<>>]

\* migrate_to_new_structure building the empty Profile of lines 58-68 for
\* every flat document
migrate_to_new_structure_fresh(p, rows, ok, now) ==
    IF "common_profile" \in DOMAIN p /\ "character_memories" \in DOMAIN p
    THEN [profile |-> p, db |-> rows]
    ELSE LET new == [common_profile |->
                         [basic_info |-> EmptyDict,
                          preferences |-> [likes |-> <<>>, dislikes |-> <<>>]],
                     character_memories |-> EmptyDict,
                     last_updated |-> None]
             s == save_profile(new, rows, ok, now)
         IN  [profile |-> s.profile, db |-> s.db]

\* Every document of the model is a mapping whose basic_info and
\* preferences are mappings, so the isinstance tests of lines 41-44 hold and
\* the except branch (lines 55-69) is not taken.
migrate_to_new_structure(p, rows, ok, now) ==
    IF "common_profile" \in DOMAIN p /\ "character_memories" \in DOMAIN p
    THEN [profile |-> p, db |-> rows]
    ELSE LET old_basic_info ==
                 IF "basic_info" \in DOMAIN p THEN p.basic_info ELSE EmptyDict
             old_preferences ==
                 IF "preferences" \in DOMAIN p
                 THEN p.preferences
                 ELSE [likes |-> <<>>, dislikes |-> <<>>]
             new ==
                 [common_profile |->
                      [basic_info |-> old_basic_info,
                       preferences |->
                           [likes |-> IF "likes" \in DOMAIN old_preferences
                                      THEN old_preferences.likes ELSE <<>>,
                            dislikes |-> IF "dislikes" \in DOMAIN old_preferences
                                         THEN old_preferences.dislikes ELSE <<>>]],
                  character_memories |-> EmptyDict,
                  last_updated |-> IF "last_updated" \in DOMAIN p
                                   THEN p.last_updated ELSE None]
             s == save_profile(new, rows, ok, now)
         IN  [profile |-> s.profile, db |-> s.db]

\* ProfileManager.__init__: load, then migrate
construct(rows, load_ok, ok, now) ==
    LET l == load_profile(rows, load_ok, ok, now)
    IN  migrate_to_new_structure(l.profile, l.db, ok, now)

\* ------------------------------------------------------ common profile
\* Every mutator is an operator from the Profile, the stored rows and its
\* arguments to  [profile, db, ret, raised, saves]; saves counts its calls of
\* save_profile.
Outcome(p, rows, ret) ==
    [profile |-> p, db |-> rows, ret |-> ret, raised |-> FALSE, saves |-> 0]

Raise(p, rows) ==
    [profile |-> p, db |-> rows, ret |-> "Raised", raised |-> TRUE, saves |-> 0]

Saved(p, rows, ok, now, ret) ==
    LET s == save_profile(p, rows, ok, now)
    IN  [profile |-> s.profile, db |-> s.db, ret |-> ret, raised |-> FALSE,
         saves |-> 1]

update_common_info(p, rows, key, value, ok, now) ==
    Saved([p EXCEPT !.common_profile.basic_info = DictSet(@, key, value)],
          rows, ok, now, None)

\* delete_common_info saving whether or not the key was there
delete_common_info_saving_anyway(p, rows, key, ok, now) ==
    IF key \in DOMAIN p.common_profile.basic_info
    THEN Saved([p EXCEPT !.common_profile.basic_info = DictDel(@, key)],
               rows, ok, now, "True")
    ELSE Saved(p, rows, ok, now, "False")

delete_common_info(p, rows, key, ok, now) ==
    IF key \in DOMAIN p.common_profile.basic_info
    THEN Saved([p EXCEPT !.common_profile.basic_info = DictDel(@, key)],
               rows, ok, now, "True")
    ELSE Outcome(p, rows, "False")

\* add_common_preference with the exact test of line 91 only
add_common_preference_exact_only(p, rows, item, preference_type, ok, now) ==
    IF InList(item, p.common_profile.preferences[preference_type])
    THEN Outcome(p, rows, "False")
    ELSE Saved([p EXCEPT !.common_profile.preferences[preference_type] =
                             Append(@, item)],
               rows, ok, now, "True")

\* add_common_preference comparing lower(existing) with the item as typed
add_common_preference_half_lowered(p, rows, item, preference_type, ok, now) ==
    LET items == p.common_profile.preferences[preference_type]
    IN  IF InList(item, items) \/ \E i \in 1..Len(items) : Lower(items[i]) = item
        THEN Outcome(p, rows, "False")
        ELSE Saved([p EXCEPT !.common_profile.preferences[preference_type] =
                                 Append(@, item)],
                   rows, ok, now, "True")

\* add_common_preference without any duplicate test
add_common_preference_unchecked(p, rows, item, preference_type, ok, now) ==
    IF ~IsStr(item)
    THEN Raise(p, rows)
    ELSE Saved([p EXCEPT !.common_profile.preferences[preference_type] =
                             Append(@, item)],
               rows, ok, now, "True")

add_common_preference(p, rows, item, preference_type, ok, now) ==
    LET items == p.common_profile.preferences[preference_type]
    IN  IF InList(item, items)
        THEN Outcome(p, rows, "False")
        ELSE IF ~IsStr(item)
        THEN Raise(p, rows)
        ELSE IF \E i \in 1..Len(items) : Lower(items[i]) = Lower(item)
        THEN Outcome(p, rows, "False")
        ELSE Saved([p EXCEPT !.common_profile.preferences[preference_type] =
                                 Append(@, item)],
                   rows, ok, now, "True")

delete_common_preference(p, rows, item, preference_type, ok, now) ==
    IF InList(item, p.common_profile.preferences[preference_type])
    THEN Saved([p EXCEPT !.common_profile.preferences[preference_type] =
                             RemoveFirst(@, item)],
               rows, ok, now, "True")
    ELSE Outcome(p, rows, "False")

\* --------------------------------------------------- character memories
\* lines 163-166: the text an existing entry is compared by
existing_content(memory_type, existing_memory) ==
    IF memory_type = "events" /\ Contains(existing_memory, Sep)
    THEN Lower(SplitAfterFirst(existing_memory))
    ELSE Lower(existing_memory)

\* is_similar without the containment tests of lines 173-178
is_similar_equal_only(existing, content_lower) == existing = content_lower

\* lines 169-178: one pass of the similarity loop
is_similar(existing, content_lower) ==
    \/ existing = content_lower
    \/ IF Len(content_lower) < Len(existing)
       THEN Contains(existing, content_lower)
       ELSE Contains(content_lower, existing)

\* the stamp joined to the content without the blank after the colon
content_with_timestamp_no_blank(timestamp, content) == <<timestamp, ":">> \o content

\* lines 152-153
content_with_timestamp(timestamp, content) == <<timestamp>> \o Sep \o content

\* lines 141-146: the bucket is created before anything is checked
with_bucket(p, character_name) ==
    IF character_name \in DOMAIN p.character_memories
    THEN p
    ELSE [p EXCEPT !.character_memories = DictSet(@, character_name, EmptyBucket)]

\* content_with_timestamp is bound only in the events branch (line 153), so
\* line 181 raises UnboundLocalError for topics and notes.
add_character_memory(p, rows, character_name, memory_type, content, ok, now) ==
    LET p1 == with_bucket(p, character_name)
        memories == p1.character_memories[character_name][memory_type]
        stamped == content_with_timestamp(now, content)
    IN  IF memory_type = "events" /\ InList(stamped, memories)
        THEN Outcome(p1, rows, "False")
        ELSE IF ~IsStr(content)
        THEN Raise(p1, rows)
        ELSE IF \E i \in 1..Len(memories) :
                    is_similar(existing_content(memory_type, memories[i]),
                               Lower(content))
        THEN Outcome(p1, rows, "False")
        ELSE IF memory_type # "events"
        THEN Raise(p1, rows)
        ELSE Saved([p1 EXCEPT !.character_memories[character_name][memory_type] =
                                  Append(@, stamped)],
                   rows, ok, now, "True")

\* delete_character_memory without the lower test of line 195: list.pop
\* counts a negative index from the end
delete_character_memory_negative(p, rows, character_name, memory_type, index, ok, now) ==
    IF character_name \notin DOMAIN p.character_memories
    THEN Outcome(p, rows, "False")
    ELSE LET n == Len(p.character_memories[character_name][memory_type])
         IN  IF index >= n THEN Outcome(p, rows, "False")
             ELSE IF index < -n THEN Raise(p, rows)
             ELSE Saved([p EXCEPT !.character_memories[character_name][memory_type] =
                                      RemoveAt(@, IF index < 0 THEN n + index + 1
                                                  ELSE index + 1)],
                        rows, ok, now, "True")

\* index is a Python int: 0-based
delete_character_memory(p, rows, character_name, memory_type, index, ok, now) ==
    IF character_name \in DOMAIN p.character_memories
       /\ 0 <= index
       /\ index < Len(p.character_memories[character_name][memory_type])
    THEN Saved([p EXCEPT !.character_memories[character_name][memory_type] =
                             RemoveAt(@, index + 1)],
               rows, ok, now, "True")
    ELSE Outcome(p, rows, "False")

\* delete_all_character_memories emptying character_memories altogether
delete_all_character_memories_everyone(p, rows, character_name, ok, now) ==
    IF character_name \in DOMAIN p.character_memories
    THEN Saved([p EXCEPT !.character_memories = EmptyDict], rows, ok, now, "True")
    ELSE Outcome(p, rows, "False")

delete_all_character_memories(p, rows, character_name, ok, now) ==
    IF character_name \in DOMAIN p.character_memories
    THEN Saved([p EXCEPT !.character_memories = DictDel(@, character_name)],
               rows, ok, now, "True")
    ELSE Outcome(p, rows, "False")

\* -------------------------------------------------------------- context
\* The texts of lines 113-252, in tokens: "<nl>" is the line feed, "<dash>"
\* the hyphen, "<comma>" the ideographic comma of line 124, and a bracketed
\* word one of the headings.
NoInformationYet == <<"(mada-jouhou-ga-arimasen)">>

NoMemoriesYet == <<"(mada-kioku-ga-arimasen)">>

\* sep.join(lines)
RECURSIVE Join(_, _)
Join(lines, sep) ==
    IF lines = <<>> THEN <<>>
    ELSE IF Len(lines) = 1 THEN lines[1]
    ELSE lines[1] \o sep \o Join(Tail(lines), sep)

\* the keys of a dict as a list; the model keeps no insertion order, the keys
\* come in an order of its own
RECURSIVE KeysOf(_)
KeysOf(d) ==
    IF DOMAIN d = {} THEN <<>>
    ELSE LET k == CHOOSE x \in DOMAIN d : TRUE
         IN  <<k>> \o KeysOf(DictDel(d, k))

\* "- " + text
Bullet(text) == <<"<dash>", " ">> \o text

\* xs[-n:]
LastN(xs, n) == IF Len(xs) > n THEN SubSeq(xs, Len(xs) - n + 1, Len(xs)) ELSE xs

RecentEvents == 5

\* lines 113-129
get_common_profile_summary(p) ==
    LET common == p.common_profile
        keys == KeysOf(common.basic_info)
        info == IF keys = <<>> THEN <<>>
                ELSE << <<"[kihon-jouhou]">> >>
                         \o [i \in 1..Len(keys) |->
                                <<"<dash>", " ", keys[i], ":", " ">>
                                    \o common.basic_info[keys[i]]]
        likes == IF common.preferences.likes = <<>> THEN <<>>
                 ELSE << <<"<nl>", "[sukina-mono]", "<nl>", "<dash>", " ">>
                            \o Join(common.preferences.likes, <<"<comma>">>) >>
        dislikes == IF common.preferences.dislikes = <<>> THEN <<>>
                    ELSE << <<"<nl>", "[nigatena-mono]", "<nl>", "<dash>", " ">>
                               \o Join(common.preferences.dislikes, <<"<comma>">>) >>
        summary == info \o likes \o dislikes
    IN  IF summary = <<>> THEN NoInformationYet ELSE Join(summary, <<"<nl>">>)

\* lines 209-232
get_character_memory_summary(p, character_name) ==
    IF character_name \notin DOMAIN p.character_memories
    THEN NoMemoriesYet
    ELSE LET memories == p.character_memories[character_name]
             Bullets(xs) == [i \in 1..Len(xs) |-> Bullet(xs[i])]
             topics == IF memories.topics = <<>> THEN <<>>
                       ELSE << <<"[hanashita-topikku]">> >> \o Bullets(memories.topics)
             events == IF memories.events = <<>> THEN <<>>
                       ELSE << <<"<nl>", "[juuyouna-dekigoto]">> >>
                                \o Bullets(LastN(memories.events, RecentEvents))
             notes == IF memories.notes = <<>> THEN <<>>
                      ELSE << <<"<nl>", "[memo]">> >> \o Bullets(memories.notes)
             summary == topics \o events \o notes
         IN  IF summary = <<>> THEN NoMemoriesYet ELSE Join(summary, <<"<nl>">>)

\* get_full_context_for_character appending both summaries whatever they are
get_full_context_always_both(p, character_name) ==
    [none |-> FALSE,
     text |-> Join(<< <<"[yuuzaa-no-kihon-jouhou]">>, get_common_profile_summary(p),
                      <<"<nl>", "[", character_name, "tono-kioku]">>,
                      get_character_memory_summary(p, character_name) >>,
                   <<"<nl>">>)]

\* lines 236-252: [none, text]; none tells that None is returned
get_full_context_for_character(p, character_name) ==
    LET common_summary == get_common_profile_summary(p)
        char_summary == get_character_memory_summary(p, character_name)
        common == IF common_summary # NoInformationYet
                  THEN << <<"[yuuzaa-no-kihon-jouhou]">>, common_summary >>
                  ELSE <<>>
        char == IF char_summary # NoMemoriesYet
                THEN << <<"<nl>", "[", character_name, "tono-kioku]">>, char_summary >>
                ELSE <<>>
        context == common \o char
    IN  IF context = <<>>
        THEN [none |-> TRUE, text |-> <<>>]
        ELSE [none |-> FALSE, text |-> Join(context, <<"<nl>">>)]

\* ----------------------------------------------------------- compaction
SummaryMarker == <<"[youyaku]", " ">>

type_names == [topics |-> "wadai", events |-> "dekigoto", notes |-> "memo"]

\* summarize_memories whose fallback leaves the count out
summarize_memories_no_count(memory_type, items, answer) ==
    IF answer.ok
    THEN Strip(answer.text)
    ELSE <<"ken-no", type_names[memory_type], "(shousai-ha-shouryaku)">>

\* the answer of one text-generation call: it fails, or it returns a text
\* lines 426-436
summarize_memories(memory_type, items, answer) ==
    IF answer.ok
    THEN Strip(answer.text)
    ELSE <<ToString(Len(items)), "ken-no", type_names[memory_type],
           "(shousai-ha-shouryaku)">>

\* lines 371-374
item_content(memory_type, item) ==
    IF memory_type = "events" /\ Contains(item, Sep)
    THEN Lower(SplitAfterFirst(item))
    ELSE Lower(item)

\* lines 366-378: the loop appends an item exactly when no earlier item has
\* its content, so it keeps the first occurrences, in order
unique_items_of(memory_type, items) ==
    LET content == SubSeq([i \in 1..Len(items) |->
                               item_content(memory_type, items[i])], 1, Len(items))
        IsFirst(i) == \A j \in 1..(i - 1) : content[j] # content[i]
        kept == SelectSeq([i \in 1..Len(items) |-> i], IsFirst)
    IN  [k \in 1..Len(kept) |-> items[kept[k]]]

\* optimize_list without the test of line 361
optimize_list_no_skip(memory_type, items, answer) ==
    LET unique_items == unique_items_of(memory_type, items)
        n == Len(unique_items)
    IN  IF n > SummarizeThreshold
        THEN [items |-> <<SummaryMarker \o summarize_memories(
                              memory_type, SubSeq(unique_items, 1, n - KeepNewest),
                              answer)>>
                        \o SubSeq(unique_items, n - KeepNewest + 1, n),
              deleted |-> Len(items) - n,
              summarized |-> n - KeepNewest,
              calls |-> IF answer.ok THEN "answered" ELSE "failed"]
        ELSE [items |-> unique_items, deleted |-> Len(items) - n,
              summarized |-> 0, calls |-> "none"]

\* optimize_list summarizing the 30 oldest entries, as the comment of line 385
\* has it, whatever the length
optimize_list_oldest_30(memory_type, items, answer) ==
    IF Len(items) <= SkipThreshold
    THEN [items |-> items, deleted |-> 0, summarized |-> 0, calls |-> "none"]
    ELSE LET unique_items == unique_items_of(memory_type, items)
             n == Len(unique_items)
             old_items == SubSeq(unique_items, 1, SummarizeThreshold - KeepNewest)
         IN  IF n > SummarizeThreshold
             THEN [items |-> <<SummaryMarker \o summarize_memories(
                                   memory_type, old_items, answer)>>
                             \o SubSeq(unique_items, n - KeepNewest + 1, n),
                   deleted |-> Len(items) - n,
                   summarized |-> Len(old_items),
                   calls |-> IF answer.ok THEN "answered" ELSE "failed"]
             ELSE [items |-> unique_items, deleted |-> Len(items) - n,
                   summarized |-> 0, calls |-> "none"]

\* optimize_list putting the summary before all the entries, the oldest kept
optimize_list_keeps_old(memory_type, items, answer) ==
    IF Len(items) <= SkipThreshold
    THEN [items |-> items, deleted |-> 0, summarized |-> 0, calls |-> "none"]
    ELSE LET unique_items == unique_items_of(memory_type, items)
             n == Len(unique_items)
         IN  IF n > SummarizeThreshold
             THEN [items |-> <<SummaryMarker \o summarize_memories(
                                   memory_type, SubSeq(unique_items, 1, n - KeepNewest),
                                   answer)>>
                             \o unique_items,
                   deleted |-> Len(items) - n,
                   summarized |-> n - KeepNewest,
                   calls |-> IF answer.ok THEN "answered" ELSE "failed"]
             ELSE [items |-> unique_items, deleted |-> Len(items) - n,
                   summarized |-> 0, calls |-> "none"]

\* lines 360-396: one round of the loop, on one list
\* [items, deleted, summarized, calls]; calls tells whether the text-generation
\* call was made for this list and whether it answered or failed
optimize_list(memory_type, items, answer) ==
    IF Len(items) <= SkipThreshold
    THEN [items |-> items, deleted |-> 0, summarized |-> 0, calls |-> "none"]
    ELSE LET unique_items == unique_items_of(memory_type, items)
             deleted == Len(items) - Len(unique_items)
             n == Len(unique_items)
         IN  IF n > SummarizeThreshold
             THEN LET old_items == SubSeq(unique_items, 1, n - KeepNewest)
                      new_items == SubSeq(unique_items, n - KeepNewest + 1, n)
                      summary == summarize_memories(memory_type, old_items, answer)
                  IN  [items |-> <<SummaryMarker \o summary>> \o new_items,
                       deleted |-> deleted,
                       summarized |-> Len(old_items),
                       calls |-> IF answer.ok THEN "answered" ELSE "failed"]
             ELSE [items |-> unique_items, deleted |-> deleted,
                   summarized |-> 0, calls |-> "none"]

\* answers: one answer per memory type, used if that list is summarized
optimize_memories(p, rows, character_name, answers, ok, now) ==
    IF character_name \notin DOMAIN p.character_memories
    THEN [profile |-> p, db |-> rows, raised |-> FALSE,
          ret |-> [deleted |-> 0, summarized |-> 0],
          calls |-> [k \in Kinds |-> "none"], saves |-> 0]
    ELSE LET memories == p.character_memories[character_name]
             r == [k \in Kinds |-> optimize_list(k, memories[k], answers[k])]
             p1 == [p EXCEPT !.character_memories[character_name] =
                                 [k \in Kinds |-> r[k].items]]
             s == save_profile(p1, rows, ok, now)
         IN  [profile |-> s.profile, db |-> s.db, raised |-> FALSE,
              ret |-> [deleted |-> r.topics.deleted + r.events.deleted
                                      + r.notes.deleted,
                       summarized |-> r.topics.summarized + r.events.summarized
                                         + r.notes.summarized],
              calls |-> [k \in Kinds |-> r[k].calls], saves |-> 1]

\* ----------------------------------------------------------- extraction
\* A response text is a sequence of tokens: "<fence>" (three backquotes,
\* FENCE below), "<fence>json" (FENCE followed by json), blanks, "prose", and
\* "J1", "J2", ... each standing for the text of one JSON object.  json.loads
\* accepts a text that is exactly one such token.
JsonObjects ==
    [J1 |-> [basic_info |-> <<>>,
             likes |-> << <<"A", "b">> >>, dislikes |-> << <<"a", "b">>, <<"A", "b">> >>,
             topics |-> <<>>, events |-> << <<"a">>, <<"A">> >>, notes |-> <<>>],
     J2 |-> [basic_info |-> << <<"name", <<"a">> >> >>,
             likes |-> <<>>, dislikes |-> <<>>,
             topics |-> << <<"a">> >>, events |-> << <<"b">> >>, notes |-> <<>>],
     J3 |-> [basic_info |-> <<>>,
             likes |-> << <<"b">>, NotAString, <<"a">> >>, dislikes |-> <<>>,
             topics |-> <<>>, events |-> <<>>, notes |-> << <<"b">> >>]]

IsJson(text) == Len(text) = 1 /\ text[1] \in DOMAIN JsonObjects

\* text.split(fence)[1].split(FENCE)[0]
Fenced(text, fence) ==
    LET open == CHOOSE i \in 1..Len(text) :
                    text[i] = fence /\ \A j \in 1..(i - 1) : text[j] # fence
        rest == SubSeq(text, open + 1, Len(text))
        closes == {i \in 1..Len(rest) : rest[i] \in {"<fence>", "<fence>json"}}
        close == IF closes = {} THEN Len(rest) + 1
                 ELSE CHOOSE i \in closes : \A j \in closes : i <= j
    IN  SubSeq(rest, 1, close - 1)

\* lines 300-304
strip_code_block(text) ==
    LET result_text == Strip(text)
    IN  IF InList("<fence>json", result_text)
        THEN Strip(Fenced(result_text, "<fence>json"))
        ELSE IF InList("<fence>", result_text)
        THEN Strip(Fenced(result_text, "<fence>"))
        ELSE result_text

\* lines 309-338: the mutator calls of one parsed object, in order
MemoryCalls(memory_type, contents) ==
    [i \in 1..Len(contents) |-> [m |-> "memory", kind |-> memory_type, x |-> contents[i], y |-> <<>>]]

PreferenceCalls(preference_type, items) ==
    [i \in 1..Len(items) |-> [m |-> "preference", kind |-> preference_type, x |-> items[i], y |-> <<>>]]

InfoCalls(pairs) ==
    [i \in 1..Len(pairs) |-> [m |-> "info", kind |-> "basic_info", x |-> pairs[i][1], y |-> pairs[i][2]]]

calls_of(extracted) ==
    InfoCalls(extracted.basic_info)
        \o PreferenceCalls("likes", extracted.likes)
        \o PreferenceCalls("dislikes", extracted.dislikes)
        \o MemoryCalls("topics", extracted.topics)
        \o MemoryCalls("events", extracted.events)
        \o MemoryCalls("notes", extracted.notes)

apply_call(p, rows, character_name, c, ok, now) ==
    CASE c.m = "info" -> update_common_info(p, rows, c.x, c.y, ok, now)
      [] c.m = "preference" -> add_common_preference(p, rows, c.x, c.kind, ok, now)
      [] c.m = "memory" ->
            add_character_memory(p, rows, character_name, c.kind, c.x, ok, now)

\* the first exception leaves the try block (line 340): the calls after it
\* are not made, the ones before it stay applied
RECURSIVE apply_calls(_, _, _, _, _, _)
apply_calls(p, rows, character_name, calls, ok, now) ==
    IF calls = <<>>
    THEN [profile |-> p, db |-> rows, raised |-> FALSE, saves |-> 0]
    ELSE LET r == apply_call(p, rows, character_name, Head(calls), ok, now)
         IN  IF r.raised
             THEN [profile |-> r.profile, db |-> r.db, raised |-> TRUE,
                   saves |-> r.saves]
             ELSE LET rest == apply_calls(r.profile, r.db, character_name,
                                          Tail(calls), ok, now)
                  IN  [rest EXCEPT !.saves = @ + r.saves]

\* extract_info_from_conversation saving the Profile in its except clause
extract_info_saving_on_error(p, rows, character_name, n_messages, response, ok, now) ==
    IF n_messages < MinMessages
    THEN [profile |-> p, db |-> rows, ret |-> None, raised |-> FALSE, saves |-> 0]
    ELSE IF ~response.api_ok \/ ~IsJson(strip_code_block(response.text))
    THEN [Saved(p, rows, ok, now, None) EXCEPT !.raised = TRUE]
    ELSE LET r == apply_calls(p, rows, character_name,
                              calls_of(JsonObjects[strip_code_block(response.text)[1]]),
                              ok, now)
         IN  [profile |-> r.profile, db |-> r.db, ret |-> None,
              raised |-> r.raised, saves |-> r.saves]

\* response: [api_ok, text].  ret is None whatever happens; raised records
\* whether the except clause swallowed an exception.
extract_info_from_conversation(p, rows, character_name, n_messages, response, ok, now) ==
    IF n_messages < MinMessages
    THEN [profile |-> p, db |-> rows, ret |-> None, raised |-> FALSE, saves |-> 0]
    ELSE IF ~response.api_ok
    THEN [profile |-> p, db |-> rows, ret |-> None, raised |-> TRUE, saves |-> 0]
    ELSE LET result_text == strip_code_block(response.text)
         IN  IF ~IsJson(result_text)
             THEN [profile |-> p, db |-> rows, ret |-> None, raised |-> TRUE,
                   saves |-> 0]
             ELSE LET r == apply_calls(p, rows, character_name,
                                       calls_of(JsonObjects[result_text[1]]), ok, now)
                  IN  [profile |-> r.profile, db |-> r.db, ret |-> None,
                       raised |-> r.raised, saves |-> r.saves]

\* ------------------------------------------------------------- inputs
Keys == {"name"}

Values == {<<"a">>, <<"b">>}

Items == {<<"A", "b">>, <<"a", "b">>, <<"b">>}

\* the word of the i-th entry an earlier session stored: "k11", "k12", ...
SeedContent(i) == <<"k" \o ToString(SkipThreshold + i)>>

LargestSeed == SummarizeThreshold + SkipThreshold

\* the last of them is the word of an entry every seeded document holds
Contents == {<<"a">>, <<"A", "b">>, <<"b", ":", " ", "a">>, SeedContent(SkipThreshold)}

Answers ==
    {[ok |-> FALSE, text |-> <<>>],
     [ok |-> TRUE, text |-> <<" ", "A", "b", " ">>],
     [ok |-> TRUE, text |-> <<"a">> \o Sep \o SeedContent(LargestSeed)]}

Responses ==
    {[api_ok |-> FALSE, text |-> <<>>],
     [api_ok |-> TRUE, text |-> <<"prose">>],
     [api_ok |-> TRUE, text |-> <<"<fence>json", "prose", "<fence>">>],
     [api_ok |-> TRUE, text |-> <<" ", "J1">>],
     [api_ok |-> TRUE, text |-> <<"prose", "<fence>json", " ", "J2", "<fence>">>],
     [api_ok |-> TRUE, text |-> <<"<fence>", "J3", " ", "<fence>", "prose">>]}

NoResponse == [api_ok |-> FALSE, text |-> <<>>]

MessageCounts == {MinMessages - 1, MinMessages}

\* A document an earlier session of this program wrote: n events for Aria,
\* added one by one on the first day, pairwise dissimilar (words of equal
\* length), never compacted.
SeedDocument(n) ==
    [common_profile |->
         [basic_info |-> EmptyDict,
          preferences |-> [likes |-> <<>>, dislikes |-> <<>>]],
     character_memories |->
         [c \in {"Aria"} |->
              [topics |-> <<>>,
               events |-> [i \in 1..n |-> content_with_timestamp(Dates[1], SeedContent(i))],
               notes |-> <<>>]],
     last_updated |-> Dates[1]]

SeedSizes == {SkipThreshold, SummarizeThreshold, LargestSeed}

\* The largest of them after a compaction whose summary was the last of
\* Answers and after the deletion, one by one, of all but the first and the
\* last entry: the summary entry and the entry whose word the summary ends in.
TrimmedDocument ==
    LET seed == SeedDocument(LargestSeed)
        answer == [ok |-> TRUE, text |-> <<"a">> \o Sep \o SeedContent(LargestSeed)]
        compacted == optimize_list("events", seed.character_memories["Aria"].events,
                                   answer).items
    IN  [seed EXCEPT !.character_memories["Aria"].events =
                         <<compacted[1], compacted[Len(compacted)]>>]

\* A document of the flat shape that has content
LegacyDocument ==
    [basic_info |-> [k \in {"name"} |-> <<"a">>],
     preferences |-> [likes |-> << <<"A", "b">> >>],
     important_events |-> << <<"b">> >>,
     notes |-> <<>>,
     last_updated |-> Dates[1]]

InitialStores ==
    {<<>>, <<TrimmedDocument>>} \cup {<<SeedDocument(n)>> : n \in SeedSizes}

\* ------------------------------------------------------------- actions
\* profile: the session's self.profile; db: the stored rows; store_up: whether
\* the store answers the session's upserts; today: index of the date in Dates;
\* last: the last call, what it returned, how often it called save_profile
\* and which of extraction and compaction it ran; steps: calls made so far;
\* messages, current_character: the transcript and the character of the
\* session; conversations: the stored transcript of each character; other:
\* the Profile a second session of the same user holds in memory.
NoStats == [deleted |-> 0, summarized |-> 0]

NoCalls == [k \in Kinds |-> "none"]

Last(op, character, memory_type, arg, r) ==
    [op |-> op, character |-> character, memory_type |-> memory_type, arg |-> arg,
     ret |-> r.ret, raised |-> r.raised, stats |-> NoStats, calls |-> NoCalls,
     saves |-> r.saves, ran |-> <<>>]

Now == Dates[today]

Apply(r) ==
    /\ steps < MaxSteps
    /\ profile' = r.profile
    /\ db' = r.db
    /\ steps' = steps + 1
    /\ UNCHANGED <<today, store_up, chat_vars, other>>

InitFrom(stores, loads, oks) ==
    \E rows \in stores, load_ok \in loads, ok \in oks :
        LET c == construct(rows, load_ok, ok, Dates[1])
        IN  /\ profile = c.profile
            /\ db = c.db
            /\ store_up = ok
            /\ today = 1
            /\ steps = 0
            /\ last = [op |-> "init", character |-> "", memory_type |-> "",
                       arg |-> <<>>, ret |-> None, raised |-> FALSE,
                       stats |-> NoStats, calls |-> NoCalls, saves |-> 0,
                       ran |-> <<>>]

NoCharacter == "None"

NoSession == <<>>

NoTranscripts == [c \in Characters |-> <<>>]

\* no character selected yet (lines 155-160), no transcript stored
NoChat ==
    /\ messages = <<>>
    /\ conversations = NoTranscripts
    /\ current_character = NoCharacter

OneSession == other = NoSession

Init ==
    /\ InitFrom(InitialStores \cup {<<DefaultProfile>>, <<LegacyDocument>>},
                BOOLEAN, BOOLEAN)
    /\ NoChat
    /\ OneSession

UpdateCommonInfo ==
    \E key \in Keys, value \in Values :
        LET r == update_common_info(profile, db, key, value, store_up, Now)
        IN  Apply(r) /\ last' = Last("update_common_info", "", key, value, r)

DeleteCommonInfo ==
    \E key \in Keys :
        LET r == delete_common_info(profile, db, key, store_up, Now)
        IN  Apply(r) /\ last' = Last("delete_common_info", "", key, <<>>, r)

AddCommonPreference ==
    \E item \in Items, preference_type \in PreferenceTypes :
        LET r == add_common_preference(profile, db, item, preference_type, store_up, Now)
        IN  Apply(r) /\ last' = Last("add_common_preference", "", preference_type, item, r)

DeleteCommonPreference ==
    \E item \in Items, preference_type \in PreferenceTypes :
        LET r == delete_common_preference(profile, db, item, preference_type,
                                          store_up, Now)
        IN  Apply(r) /\ last' = Last("delete_common_preference", "", preference_type, item, r)

AddCharacterMemory ==
    \E character_name \in Characters, memory_type \in Kinds, content \in Contents :
        LET r == add_character_memory(profile, db, character_name, memory_type,
                                      content, store_up, Now)
        IN  Apply(r) /\ last' = Last("add_character_memory", character_name,
                                     memory_type, content, r)

\* the indices tried: below the list, its first and last entry, past its end
IndicesFor(p, character_name, memory_type) ==
    IF character_name \in DOMAIN p.character_memories
    THEN LET n == Len(p.character_memories[character_name][memory_type])
         IN  {-1, 0, n - 1, n}
    ELSE {-1, 0}

DeleteCharacterMemory ==
    \E character_name \in Characters, memory_type \in Kinds :
        \E index \in IndicesFor(profile, character_name, memory_type) :
            LET r == delete_character_memory(profile, db, character_name,
                                             memory_type, index, store_up, Now)
            IN  Apply(r) /\ last' = Last("delete_character_memory", character_name,
                                         memory_type, <<ToString(index)>>, r)

DeleteAllCharacterMemories ==
    \E character_name \in Characters :
        LET r == delete_all_character_memories(profile, db, character_name,
                                               store_up, Now)
        IN  Apply(r) /\ last' = Last("delete_all_character_memories", character_name,
                                     "", <<>>, r)

\* a response is drawn when the call is made (line 294)
ExtractInfoFromConversation ==
    \E character_name \in Characters, n_messages \in MessageCounts :
      \E response \in IF n_messages < MinMessages THEN {NoResponse} ELSE Responses :
        LET r == extract_info_from_conversation(profile, db, character_name,
                                                n_messages, response, store_up, Now)
        IN  Apply(r) /\ last' = Last("extract_info_from_conversation", character_name,
                                     "", response.text, r)

\* the lists of the bucket that one run summarizes: one answer is drawn for
\* each of them
Summarized(p, character_name) ==
    IF character_name \in DOMAIN p.character_memories
    THEN {k \in Kinds :
            LET items == p.character_memories[character_name][k]
            IN  /\ Len(items) > SkipThreshold
                /\ Len(unique_items_of(k, items)) > SummarizeThreshold}
    ELSE {}

NoAnswer == [ok |-> FALSE, text |-> <<>>]

OptimizeMemories ==
    \E character_name \in Characters :
        \E given \in [Summarized(profile, character_name) -> Answers] :
            LET answers == [k \in Kinds |-> IF k \in DOMAIN given THEN given[k]
                                            ELSE NoAnswer]
                r == optimize_memories(profile, db, character_name, answers,
                                       store_up, Now)
            IN  /\ Apply(r)
                /\ last' = [op |-> "optimize_memories", character |-> character_name,
                            memory_type |-> "", arg |-> <<>>, ret |-> "Stats",
                            raised |-> r.raised, stats |-> r.ret, calls |-> r.calls,
                            saves |-> r.saves, ran |-> <<>>]

\* build_system_prompt (app.py line 173) reads the context; last.arg is the
\* text returned, last.ret tells None from a text
GetFullContextForCharacter ==
    \E character_name \in Characters :
        LET c == get_full_context_for_character(profile, character_name)
        IN  /\ Apply(Outcome(profile, db, IF c.none THEN None ELSE "Text"))
            /\ last' = Last("get_full_context_for_character", character_name, "",
                            c.text, Outcome(profile, db, IF c.none THEN None ELSE "Text"))

\* what load_profile finds in the store
ShapeOf(rows) ==
    IF rows = <<>> THEN "missing"
    ELSE IF "common_profile" \in DOMAIN rows[1] THEN "nested" ELSE "flat"

\* A new session of the user (app.py lines 143-160): a ProfileManager is
\* constructed over the stored rows, no character is selected.  last.ret
\* tells whether the load succeeded, last.arg what was stored.
StartSession ==
    /\ steps < MaxSteps
    /\ \E load_ok \in BOOLEAN, ok \in BOOLEAN :
           LET c == construct(db, load_ok, ok, Now)
           IN  /\ profile' = c.profile
               /\ db' = c.db
               /\ store_up' = ok
               /\ last' = [op |-> "start_session", character |-> "",
                           memory_type |-> "", arg |-> <<ShapeOf(db)>>,
                           ret |-> IF load_ok THEN "True" ELSE "False",
                           raised |-> FALSE, stats |-> NoStats, calls |-> NoCalls,
                           saves |-> 0, ran |-> <<>>]
    /\ messages' = <<>>
    /\ current_character' = NoCharacter
    /\ steps' = steps + 1
    /\ UNCHANGED <<today, conversations, other>>

\* ------------------------------------------------------------ the chat
\* A transcript is the list of the roles of its messages.  The stored
\* transcripts are a mapping from every character to a transcript, <<>> for
\* a character without a row.
save_conversations(rows, character_name, msgs, ok) ==
    IF ok THEN [rows EXCEPT ![character_name] = msgs] ELSE rows

load_conversations(rows, character_name, ok) ==
    IF ok THEN rows[character_name] ELSE <<>>

delete_conversations(rows, character_name, ok) ==
    IF ok THEN [rows EXCEPT ![character_name] = <<>>] ELSE rows

\* what a turn that runs no extraction, and no compaction, has of them
NotRun(p, rows) ==
    [profile |-> p, db |-> rows, saves |-> 0, ret |-> NoStats, calls |-> NoCalls]

\* chat_turn saving the transcript as soon as the user message is appended
chat_turn_saving_first(p, rows, msgs, convs, character_name, api_ok, response, answers, ok, now) ==
    [profile |-> p, db |-> rows,
     messages |-> IF api_ok THEN msgs \o <<"user", "assistant">>
                  ELSE Append(msgs, "user"),
     conversations |->
         save_conversations(convs, character_name,
                            IF api_ok THEN msgs \o <<"user", "assistant">>
                            ELSE Append(msgs, "user"), ok),
     ret |-> IF api_ok THEN "True" ELSE "False", raised |-> ~api_ok,
     saves |-> 0, stats |-> NoStats, calls |-> NoCalls,
     ran |-> <<"save_conversations">>]

\* app.py lines 592-659, one submitted message.  api_ok: the completion call
\* of line 615 returns; response, answers: what the text-generation calls of
\* the extraction and of the compaction get.  ran lists, in order, which of
\* save_conversations, extraction and compaction the handler called.
chat_turn(p, rows, msgs, convs, character_name, api_ok, response, answers, ok, now) ==
    LET with_user == Append(msgs, "user")
    IN  IF ~api_ok
        THEN [profile |-> p, db |-> rows, messages |-> with_user,
              conversations |-> convs, ret |-> "False", raised |-> TRUE,
              saves |-> 0, stats |-> NoStats, calls |-> NoCalls, ran |-> <<>>]
        ELSE LET with_assistant == Append(with_user, "assistant")
                 message_count == Len(with_assistant)
                 extracts == message_count % ExtractEvery = 0
                 optimizes == message_count % OptimizeEvery = 0
             IN  CHOOSE turn \in UNION {
                     {[profile |-> o.profile, db |-> o.db,
                       messages |-> with_assistant,
                       conversations |->
                           save_conversations(convs, character_name,
                                              with_assistant, ok),
                       ret |-> "True", raised |-> FALSE,
                       saves |-> e.saves + o.saves, stats |-> o.ret,
                       calls |-> o.calls,
                       ran |-> <<"save_conversations">>
                                   \o (IF extracts THEN <<"extract">> ELSE <<>>)
                                   \o (IF optimizes THEN <<"optimize">> ELSE <<>>)] :
                      o \in {IF optimizes
                             THEN optimize_memories(e.profile, e.db, character_name,
                                                    answers, ok, now)
                             ELSE NotRun(e.profile, e.db)}} :
                     e \in {IF extracts
                            THEN extract_info_from_conversation(
                                     p, rows, character_name, message_count,
                                     response, ok, now)
                            ELSE NotRun(p, rows)}} : TRUE

\* the transcript of n messages of turns that all succeeded
Alternating(n) == [i \in 1..n |-> IF i % 2 = 1 THEN "user" ELSE "assistant"]

\* Transcripts earlier turns stored: none; one of a failed turn followed by a
\* successful one; one of two successful turns; one a turn short of the
\* fiftieth message.
InitialTranscripts ==
    {<<>>, <<"user", "user", "assistant">>, Alternating(ExtractEvery - 1),
     Alternating(OptimizeEvery - 2)}

\* a session in which the first character is selected, its stored transcript
\* loaded (lines 387-390)
InitChatFrom(transcripts) ==
    \E t \in transcripts :
        /\ conversations = [c \in Characters |-> IF c = "Aria" THEN t ELSE <<>>]
        /\ current_character = "Aria"
        /\ messages = t

\* lines 387-391
SelectCharacter ==
    \E char_name \in Characters :
        /\ steps < MaxSteps
        /\ current_character # char_name
        /\ current_character' = char_name
        /\ messages' = load_conversations(conversations, char_name, store_up)
        /\ steps' = steps + 1
        /\ last' = Last("select_character", char_name, "", <<>>,
                        Outcome(profile, db, None))
        /\ UNCHANGED <<profile, db, store_up, today, conversations, other>>

\* lines 492-496
ResetConversation ==
    /\ steps < MaxSteps
    /\ current_character # NoCharacter
    /\ conversations' = delete_conversations(conversations, current_character, store_up)
    /\ messages' = <<>>
    /\ steps' = steps + 1
    /\ last' = Last("reset_conversation", current_character, "", <<>>,
                    Outcome(profile, db, None))
    /\ UNCHANGED <<profile, db, store_up, today, current_character, other>>

\* the inputs are drawn for the calls the handler makes: a response when the
\* extraction is due, an answer for each list the compaction summarizes
ChatTurn ==
    /\ steps < MaxSteps
    /\ current_character # NoCharacter
    /\ \E api_ok \in BOOLEAN :
         LET message_count == Len(messages) + 2
         IN  \E response \in IF api_ok /\ message_count % ExtractEvery = 0
                             THEN Responses ELSE {NoResponse} :
             \E extracted \in {IF api_ok /\ message_count % ExtractEvery = 0
                                THEN extract_info_from_conversation(
                                         profile, db, current_character,
                                         message_count, response, store_up,
                                         Now).profile
                                ELSE profile} :
             \E given \in [IF api_ok /\ message_count % OptimizeEvery = 0
                            THEN Summarized(extracted, current_character)
                            ELSE {} -> Answers] :
             \E answers \in {[k \in Kinds |-> IF k \in DOMAIN given THEN given[k]
                                               ELSE NoAnswer]} :
             \E r \in {chat_turn(profile, db, messages, conversations,
                                 current_character, api_ok, response, answers,
                                 store_up, Now)} :
                   /\ profile' = r.profile
                   /\ db' = r.db
                   /\ messages' = r.messages
                   /\ conversations' = r.conversations
                   /\ last' = [op |-> "chat_turn", character |-> current_character,
                               memory_type |-> "", arg |-> response.text,
                               ret |-> r.ret, raised |-> r.raised, stats |-> r.stats,
                               calls |-> r.calls, saves |-> r.saves, ran |-> r.ran]
    /\ steps' = steps + 1
    /\ UNCHANGED <<store_up, today, current_character, other>>

\* ---------------------------------------------------- a second session
\* The same user in a second browser session: its ProfileManager holds a
\* Profile of its own (app.py lines 143-145) over the same stored rows.
SecondSession == other = profile

\* a call of the second session's ProfileManager: the first session's Profile
\* stays as it is, the stored rows are shared
ApplyOther(r) ==
    /\ steps < MaxSteps
    /\ other # NoSession
    /\ other' = r.profile
    /\ db' = r.db
    /\ steps' = steps + 1
    /\ UNCHANGED <<profile, today, store_up, chat_vars>>

OtherAddCommonPreference ==
    \E item \in Items, preference_type \in PreferenceTypes :
        LET r == add_common_preference(other, db, item, preference_type, store_up, Now)
        IN  /\ ApplyOther(r)
            /\ last' = Last("other.add_common_preference", "", preference_type, item, r)

OtherUpdateCommonInfo ==
    \E key \in Keys, value \in Values :
        LET r == update_common_info(other, db, key, value, store_up, Now)
        IN  /\ ApplyOther(r)
            /\ last' = Last("other.update_common_info", "", key, value, r)

NextDay ==
    /\ today < Len(Dates)
    /\ steps < MaxSteps
    /\ today' = today + 1
    /\ steps' = steps + 1
    /\ last' = [op |-> "next_day", character |-> "", memory_type |-> "",
                arg |-> <<>>, ret |-> None, raised |-> FALSE,
                stats |-> NoStats, calls |-> NoCalls, saves |-> 0, ran |-> <<>>]
    /\ UNCHANGED <<profile, db, store_up, chat_vars, other>>

Next ==
    \/ UpdateCommonInfo
    \/ DeleteCommonInfo
    \/ AddCommonPreference
    \/ DeleteCommonPreference
    \/ AddCharacterMemory
    \/ DeleteCharacterMemory
    \/ DeleteAllCharacterMemories
    \/ ExtractInfoFromConversation
    \/ OptimizeMemories
    \/ GetFullContextForCharacter
    \/ StartSession
    \/ SelectCharacter
    \/ ResetConversation
    \/ ChatTurn
    \/ OtherAddCommonPreference
    \/ OtherUpdateCommonInfo
    \/ NextDay

Spec == Init /\ [][Next]_vars

\* Sessions that use the character memories only.
NextMemory ==
    \/ AddCharacterMemory
    \/ DeleteCharacterMemory
    \/ DeleteAllCharacterMemories
    \/ ExtractInfoFromConversation
    \/ OptimizeMemories
    \/ NextDay

InitMemory == InitFrom(InitialStores, {TRUE}, {TRUE}) /\ NoChat /\ OneSession

SpecMemory == InitMemory /\ [][NextMemory]_vars

\* Sessions that use the common profile only, on a store without memories.
InitCommon ==
    /\ InitFrom({<<>>, <<DefaultProfile>>, <<LegacyDocument>>}, BOOLEAN, BOOLEAN)
    /\ NoChat
    /\ OneSession

NextCommon ==
    \/ UpdateCommonInfo
    \/ DeleteCommonInfo
    \/ AddCommonPreference
    \/ DeleteCommonPreference
    \/ ExtractInfoFromConversation
    \/ StartSession

SpecCommon == InitCommon /\ [][NextCommon]_vars

\* Sessions that build the context of a character while the common profile
\* and the memories change.
InitContext ==
    /\ InitFrom({<<>>, <<LegacyDocument>>, <<SeedDocument(SkipThreshold)>>,
                 <<TrimmedDocument>>}, {TRUE}, {TRUE})
    /\ NoChat
    /\ OneSession

NextContext ==
    \/ UpdateCommonInfo
    \/ AddCommonPreference
    \/ AddCharacterMemory
    \/ DeleteCharacterMemory
    \/ DeleteAllCharacterMemories
    \/ GetFullContextForCharacter

SpecContext == InitContext /\ [][NextContext]_vars

\* Sessions that chat with a character.
InitChat ==
    /\ InitFrom({<<>>, <<SeedDocument(LargestSeed)>>}, {TRUE}, BOOLEAN)
    /\ InitChatFrom(InitialTranscripts)
    /\ OneSession

NextChat ==
    \/ ChatTurn
    \/ SelectCharacter
    \/ ResetConversation

SpecChat == InitChat /\ [][NextChat]_vars

\* Two sessions of the user, both started on the same stored document.
InitSessions ==
    /\ InitFrom({<<>>, <<DefaultProfile>>}, {TRUE}, BOOLEAN)
    /\ NoChat
    /\ SecondSession

NextSessions ==
    \/ AddCommonPreference
    \/ UpdateCommonInfo
    \/ OtherAddCommonPreference
    \/ OtherUpdateCommonInfo

SpecSessions == InitSessions /\ [][NextSessions]_vars

\* Sessions that call every mutator of the Profile: on a small document and a
\* store that may refuse the saves, or on the largest document.
InitMutators ==
    /\ \/ InitFrom({<<>>, <<LegacyDocument>>}, {TRUE}, BOOLEAN)
       \/ InitFrom({<<SeedDocument(LargestSeed)>>}, {TRUE}, {TRUE})
    /\ NoChat
    /\ OneSession

NextMutators ==
    \/ UpdateCommonInfo
    \/ DeleteCommonInfo
    \/ AddCommonPreference
    \/ DeleteCommonPreference
    \/ AddCharacterMemory
    \/ DeleteCharacterMemory
    \/ DeleteAllCharacterMemories
    \/ OptimizeMemories

SpecMutators == InitMutators /\ [][NextMutators]_vars

\* ------------------------------------------------------------- claims
MemoriesOf(p, character_name, memory_type) ==
    IF character_name \in DOMAIN p.character_memories
    THEN p.character_memories[character_name][memory_type]
    ELSE <<>>

Likes == profile.common_profile.preferences.likes

Dislikes == profile.common_profile.preferences.dislikes

IsDate(t) == \E d \in 1..Len(Dates) : Dates[d] = t

HasDateStamp(entry) ==
    Len(entry) >= 3 /\ IsDate(entry[1]) /\ SubSeq(entry, 2, 3) = Sep

\* an entry lower-cased, its date stamp removed if it has one
DateStripped(entry) ==
    IF HasDateStamp(entry) THEN Lower(SubSeq(entry, 4, Len(entry))) ELSE Lower(entry)

NearDuplicates(x, y) == Contains(x, y) \/ Contains(y, x)

IsSummaryEntry(entry) == Len(entry) >= 2 /\ SubSeq(entry, 1, 2) = SummaryMarker

Inserted == last.op = "add_character_memory" /\ last.ret = "True"

TouchedList == MemoriesOf(profile, last.character, last.memory_type)

NoCaseDuplicates(items) ==
    \A i, j \in 1..Len(items) : i # j => Lower(items[i]) # Lower(items[j])

\* C2: in every reachable state neither likes nor dislikes holds two entries
\* that are equal case-insensitively.
C2_PreferencesCaseUnique == NoCaseDuplicates(Likes) /\ NoCaseDuplicates(Dislikes)

\* a migrated legacy list that an add has extended
C2_Witness == Len(Likes) >= 2 /\ Len(Dislikes) >= 1

\* the step just taken is a call of add_character_memory
AddStep == last'.op = "add_character_memory"

PreList == MemoriesOf(profile, last'.character, last'.memory_type)

PostList == MemoriesOf(profile', last'.character, last'.memory_type)

\* the claim's test: some existing entry, lower-cased and for events without
\* its date stamp, equals, contains or is contained in the lower-cased content
ClaimedSimilar ==
    \E i \in 1..Len(PreList) :
        NearDuplicates(IF last'.memory_type = "events"
                       THEN DateStripped(PreList[i]) ELSE Lower(PreList[i]),
                       Lower(last'.arg))

\* C3, as claimed: add_character_memory returns False and leaves the list
\* unchanged exactly when an existing entry is similar to the content, and
\* inserts in every other case.
C3_RejectsExactlySimilar ==
    [][AddStep =>
          IF ClaimedSimilar
          THEN last'.ret = "False" /\ PostList = PreList
          ELSE last'.ret = "True" /\ Len(PostList) = Len(PreList) + 1]_vars

\* the list of one preference type before and after the step
PrePreferences == profile.common_profile.preferences[last'.memory_type]

PostPreferences == profile'.common_profile.preferences[last'.memory_type]

\* the list holds an entry equal to the item case-insensitively
HoldsSpelling ==
    \E i \in 1..Len(PrePreferences) : Lower(PrePreferences[i]) = Lower(last'.arg)

\* C4: add_common_preference(x) on a list that holds no entry equal to x
\* case-insensitively appends x as spelled and returns True; a following
\* add_common_preference(y), y equal to x case-insensitively, returns False
\* and leaves the list as it was, with exactly one such entry, spelled as x.
C4_SecondSpellingRejected ==
    [][last'.op = "add_common_preference" =>
          IF HoldsSpelling
          THEN /\ last'.ret = "False"
               /\ PostPreferences = PrePreferences
               /\ Cardinality({i \in 1..Len(PostPreferences) :
                                  Lower(PostPreferences[i]) = Lower(last'.arg)}) = 1
          ELSE /\ last'.ret = "True"
               /\ PostPreferences = Append(PrePreferences, last'.arg)]_vars

\* a spelling that differs from the stored one has just been rejected
C4_Witness ==
    /\ last.op = "add_common_preference"
    /\ last.ret = "False"
    /\ ~InList(last.arg, profile.common_profile.preferences[last.memory_type])
    /\ \E i \in 1..Len(profile.common_profile.preferences[last.memory_type]) :
           Lower(profile.common_profile.preferences[last.memory_type][i])
               = Lower(last.arg)

\* C5, as claimed: for topics and notes a content similar to no existing
\* entry is appended unmodified as the last entry, the Profile is persisted,
\* and the call returns True without raising.
C5_TopicsAndNotesAppendRaw ==
    [][(/\ AddStep
        /\ last'.memory_type \in {"topics", "notes"}
        /\ ~\E i \in 1..Len(PreList) :
                is_similar(existing_content(last'.memory_type, PreList[i]),
                           Lower(last'.arg)))
          => /\ ~last'.raised
             /\ last'.ret = "True"
             /\ PostList = Append(PreList, last'.arg)
             /\ db' = <<profile'>>]_vars

OptimizeStep == last'.op = "optimize_memories"

PreOf(k) == MemoriesOf(profile, last'.character, k)

PostOf(k) == MemoriesOf(profile', last'.character, k)

UniqueOf(k) == unique_items_of(k, PreOf(k))

Processed(k) == Len(PreOf(k)) > SkipThreshold

Folded(k) == Processed(k) /\ Len(UniqueOf(k)) > SummarizeThreshold

Newest(k) ==
    SubSeq(UniqueOf(k), Len(UniqueOf(k)) - KeepNewest + 1, Len(UniqueOf(k)))

Sum3(f) == f["topics"] + f["events"] + f["notes"]

C8_ShortListsUntouched ==
    [][OptimizeStep =>
          /\ \A k \in Kinds :
                 ~Processed(k) => PostOf(k) = PreOf(k) /\ last'.calls[k] = "none"
          /\ last'.stats.deleted =
                 Sum3([k \in Kinds |-> IF Processed(k)
                                       THEN Len(PreOf(k)) - Len(UniqueOf(k)) ELSE 0])
          /\ (\A k \in Kinds : ~Processed(k)) =>
                 last'.stats = [deleted |-> 0, summarized |-> 0]]_vars

\* compaction has run on a short list that holds two entries of one content
C8_Witness ==
    /\ last.op = "optimize_memories"
    /\ LET events == MemoriesOf(profile, last.character, "events")
       IN  /\ Len(events) = 2
           /\ item_content("events", events[1]) = item_content("events", events[2])

\* C9: immediately after optimize_memories(character) each of the three
\* lists of that character has at most 50 entries.
C9_ListsBounded ==
    last.op = "optimize_memories" =>
        \A k \in Kinds : Len(MemoriesOf(profile, last.character, k)) <= SummarizeThreshold

\* a compaction that folded entries, its summarization call having failed
C9_Witness ==
    /\ last.op = "optimize_memories"
    /\ last.stats.summarized > 0
    /\ last.calls["events"] = "failed"
    /\ Len(MemoriesOf(profile, last.character, "events")) > SkipThreshold

\* C10: when the text-generation call fails, optimize_memories still returns
\* its counts, and the list is a fallback entry naming the number of folded
\* entries and the memory type, followed by the newest 20 entries.
C10_FallbackOnFailure ==
    [][OptimizeStep =>
          /\ ~last'.raised
          /\ last'.ret = "Stats"
          /\ \A k \in Kinds :
                 last'.calls[k] = "failed" =>
                     /\ Folded(k)
                     /\ last'.stats.summarized >= Len(UniqueOf(k)) - KeepNewest
                     /\ PostOf(k) =
                            <<SummaryMarker
                                  \o <<ToString(Len(UniqueOf(k)) - KeepNewest), "ken-no",
                                       type_names[k], "(shousai-ha-shouryaku)">> >>
                                \o Newest(k)]_vars

\* the fallback entry of 31 folded events heads the list
C10_Witness ==
    /\ last.op = "optimize_memories"
    /\ last.calls["events"] = "failed"
    /\ LET events == MemoriesOf(profile, last.character, "events")
       IN  /\ Len(events) = KeepNewest + 1
           /\ events[1][3] = ToString(SummarizeThreshold + 1 - KeepNewest)

\* the step just taken is a call of extract_info_from_conversation
ExtractStep == last'.op = "extract_info_from_conversation"

\* the text of the response is one JSON object, a fenced block around it
\* removed
Parses(text) == IsJson(strip_code_block(text))

Parsed(text) == JsonObjects[strip_code_block(text)[1]]

AllStrings(items) == \A i \in 1..Len(items) : IsStr(items[i])

\* every list of the object holds strings only
WellFormed(extracted) ==
    /\ AllStrings(extracted.likes) /\ AllStrings(extracted.dislikes)
    /\ AllStrings(extracted.topics) /\ AllStrings(extracted.events)
    /\ AllStrings(extracted.notes)

HoldsCaseInsensitively(items, x) == \E i \in 1..Len(items) : Lower(items[i]) = Lower(x)

\* x is stored in the list or is a near-duplicate of an entry stored there
StoredOrNear(memory_type, items, x) ==
    \E i \in 1..Len(items) :
        NearDuplicates(IF memory_type = "events"
                       THEN DateStripped(items[i]) ELSE Lower(items[i]),
                       Lower(x))

\* C11, as claimed: after an extraction whose response parses as a well-formed
\* object every basic_info key maps to the response's value, every like and
\* dislike is in its preference list case-insensitively, and every topic,
\* event and note is stored in the character's list or is a near-duplicate of
\* an entry stored there.
C11_EveryFieldApplied ==
    [][(ExtractStep /\ Parses(last'.arg) /\ WellFormed(Parsed(last'.arg))) =>
          LET extracted == Parsed(last'.arg)
              common == profile'.common_profile
          IN  /\ \A i \in 1..Len(extracted.basic_info) :
                     /\ extracted.basic_info[i][1] \in DOMAIN common.basic_info
                     /\ common.basic_info[extracted.basic_info[i][1]]
                            = extracted.basic_info[i][2]
              /\ \A t \in PreferenceTypes : \A i \in 1..Len(extracted[t]) :
                     HoldsCaseInsensitively(common.preferences[t], extracted[t][i])
              /\ \A k \in Kinds : \A i \in 1..Len(extracted[k]) :
                     StoredOrNear(k, MemoriesOf(profile', last'.character, k),
                                  extracted[k][i])]_vars

\* C12: when the text-generation call fails or its text, a fenced block
\* removed, is no JSON, extract_info_from_conversation leaves the Profile as
\* it was, calls save_profile not once, and returns None.
C12_NothingOnParseFailure ==
    [][(ExtractStep /\ ~Parses(last'.arg)) =>
          /\ profile' = profile
          /\ db' = db
          /\ last'.saves = 0
          /\ last'.ret = None]_vars

\* the call was made and answered with a fenced text that is no JSON
C12_Witness ==
    /\ last.op = "extract_info_from_conversation"
    /\ last.raised
    /\ InList("<fence>json", last.arg)
    /\ ~Parses(last.arg)

\* C13, as claimed: a response that is valid JSON with a field of the wrong
\* shape is discarded as a whole: the Profile after the extraction equals the
\* Profile before it.
C13_WrongShapeDiscarded ==
    [][(ExtractStep /\ Parses(last'.arg) /\ ~WellFormed(Parsed(last'.arg))) =>
          /\ profile'.common_profile = profile.common_profile
          /\ profile'.character_memories = profile.character_memories]_vars

\* the common profile holds nothing
CommonEmpty(p) ==
    /\ DOMAIN p.common_profile.basic_info = {}
    /\ p.common_profile.preferences.likes = <<>>
    /\ p.common_profile.preferences.dislikes = <<>>

\* the character has no bucket or a bucket of empty lists
MemoriesEmpty(p, character_name) ==
    \A k \in Kinds : MemoriesOf(p, character_name, k) = <<>>

\* C14: get_full_context_for_character returns None exactly when the common
\* profile holds nothing and the character has no bucket or only empty lists;
\* otherwise it returns a string that is not empty and holds neither of the
\* two placeholder texts.
C14_ContextAbsentOrFilled ==
    last.op = "get_full_context_for_character" =>
        /\ last.ret = None <=> (CommonEmpty(profile) /\ MemoriesEmpty(profile, last.character))
        /\ last.ret # None =>
               /\ last.arg # <<>>
               /\ ~Contains(last.arg, NoInformationYet)
               /\ ~Contains(last.arg, NoMemoriesYet)

\* the context of a character whose bucket holds empty lists only, the common
\* profile holding something
C14_Witness ==
    /\ last.op = "get_full_context_for_character"
    /\ last.ret # None
    /\ last.character \in DOMAIN profile.character_memories
    /\ MemoriesEmpty(profile, last.character)

\* the step just taken is the start of a session
StartStep == last'.op = "start_session"

\* the stored document has the flat shape
StoredFlat == db # <<>> /\ "common_profile" \notin DOMAIN db[1]

LegacyList(doc, preference_type) ==
    IF preference_type \in DOMAIN doc.preferences
    THEN doc.preferences[preference_type] ELSE <<>>

\* C15: a session that loads a flat document holds a Profile whose
\* common_profile.basic_info, likes and dislikes are the document's, whose
\* character_memories is empty and which has neither important_events nor
\* notes; the store, when it takes the save, holds that Profile.
C15_LegacyMigrated ==
    [][(StartStep /\ last'.ret = "True" /\ StoredFlat) =>
          /\ profile'.common_profile.basic_info = db[1].basic_info
          /\ \A t \in PreferenceTypes :
                 profile'.common_profile.preferences[t] = LegacyList(db[1], t)
          /\ DOMAIN profile'.character_memories = {}
          /\ "important_events" \notin DOMAIN profile'
          /\ "notes" \notin DOMAIN profile'
          /\ store_up' => db' = <<profile'>>]_vars

\* a session has loaded and migrated a flat document that has content, and
\* the store holds the migrated Profile
C15_Witness ==
    /\ last.op = "start_session"
    /\ last.ret = "True"
    /\ last.arg = <<"flat">>
    /\ Likes # <<>>
    /\ db = <<profile>>

\* C16, as claimed: a key of character_memories is a character for which an
\* add_character_memory call has inserted an entry since the bucket was last
\* removed: a key appears only in a step that leaves an entry in one of the
\* character's lists.
C16_KeysFollowInserts ==
    [][\A c \in (DOMAIN profile'.character_memories)
                    \ (DOMAIN profile.character_memories) :
           \E k \in Kinds : MemoriesOf(profile', c, k) # <<>>]_vars

\* C17, as claimed: while the saves of the session succeed, the stored
\* document equals the in-memory Profile whenever no call is in progress.
C17_WriteThrough == store_up => db = <<profile>>

\* the step just taken is a call of delete_character_memory
DeleteStep == last'.op = "delete_character_memory"

\* the index the call was made with: a list is never longer than the longest
\* stored one and the entries added since
IndexGiven ==
    CHOOSE i \in -1..(LargestSeed + MaxSteps) : <<ToString(i)>> = last'.arg

\* C18: delete_character_memory removes exactly the entry at position index,
\* the others keeping their order, and returns True when the character has a
\* bucket and 0 <= index < length; otherwise it returns False, changes
\* nothing and does not save.
C18_PositionalDelete ==
    [][DeleteStep =>
          IF /\ last'.character \in DOMAIN profile.character_memories
             /\ 0 <= IndexGiven
             /\ IndexGiven < Len(PreList)
          THEN /\ last'.ret = "True"
               /\ PostList = [j \in 1..(Len(PreList) - 1) |->
                                 IF j <= IndexGiven THEN PreList[j] ELSE PreList[j + 1]]
          ELSE /\ last'.ret = "False"
               /\ profile' = profile
               /\ db' = db
               /\ last'.saves = 0]_vars

\* the last of ten entries was removed
C18_Witness ==
    /\ last.op = "delete_character_memory"
    /\ last.ret = "True"
    /\ last.arg = <<ToString(SkipThreshold - 1)>>
    /\ Len(TouchedList) = SkipThreshold - 1

\* the step just taken is a chat turn
TurnStep == last'.op = "chat_turn"

\* C19: the conversation document is saved only in a turn whose completion
\* call returned; a turn whose completion call fails appends no assistant
\* entry, saves no conversation, runs neither extraction nor compaction and
\* leaves the Profile and the stored Profile as they were.
C19_FailedTurnChangesNothing ==
    [][TurnStep =>
          /\ conversations' # conversations => last'.ret = "True"
          /\ InList("save_conversations", last'.ran) => last'.ret = "True"
          /\ last'.ret = "False" =>
                 /\ messages' = Append(messages, "user")
                 /\ conversations' = conversations
                 /\ last'.ran = <<>>
                 /\ last'.saves = 0
                 /\ profile' = profile
                 /\ db' = db]_vars

\* the completion call of the turn that would have brought the fiftieth
\* message failed
C19_Witness ==
    /\ last.op = "chat_turn"
    /\ last.ret = "False"
    /\ Len(messages) = OptimizeEvery - 1
    /\ Len(conversations[current_character]) = OptimizeEvery - 2

\* the calls of the second session
OtherOps == {"other.add_common_preference", "other.update_common_info"}

\* C20: a successful save stores the saving session's in-memory Profile as
\* the whole document, whatever the document held; so with two sessions a
\* save of one session removes from the store what the other session
\* inserted and saved (the state of C20_LostUpdate is reached).
C20_SaveOverwritesDocument ==
    [][(last'.saves > 0 /\ store_up) =>
          db' = <<IF last'.op \in OtherOps THEN other' ELSE profile'>>]_vars

\* the first session inserted a like and saved it; the second session then
\* saved, and the stored document no longer has the like
C20_LostUpdate ==
    /\ store_up
    /\ last.op = "other.add_common_preference"
    /\ last.ret = "True"
    /\ \E x \in Items :
           /\ InList(x, profile.common_profile.preferences.likes)
           /\ ~InList(x, db[1].common_profile.preferences.likes)

\* the first occurrence of each distinct entry, entries compared lower-cased
\* and without their date stamp, in the order of the list
FirstOccurrences(items) ==
    LET key == SubSeq([i \in 1..Len(items) |-> DateStripped(items[i])], 1, Len(items))
        IsFirst(i) == \A j \in 1..(i - 1) : key[j] # key[i]
        kept == SelectSeq([i \in 1..Len(items) |-> i], IsFirst)
    IN  [k \in 1..Len(kept) |-> items[kept[k]]]

\* the list is processed and its deduplicated form has at most 50 entries
DedupOnly(k) == Processed(k) /\ Len(FirstOccurrences(PreOf(k))) <= SummarizeThreshold

\* C21, as claimed: a list of more than 10 entries whose deduplicated form has
\* at most 50 becomes the first occurrence of each distinct entry (compared
\* lower-cased, the date stamp of an event stripped) in the original order,
\* without a summarization call; deleted counts the entries removed and
\* summarized nothing for it.
C21_DedupKeepsFirstOccurrences ==
    [][OptimizeStep =>
          /\ \A k \in Kinds :
                 DedupOnly(k) =>
                     /\ PostOf(k) = FirstOccurrences(PreOf(k))
                     /\ last'.calls[k] = "none"
          /\ (\A k \in Kinds : Processed(k) => DedupOnly(k)) =>
                 /\ last'.stats.summarized = 0
                 /\ last'.stats.deleted =
                        Sum3([k \in Kinds |->
                                 IF Processed(k)
                                 THEN Len(PreOf(k)) - Len(FirstOccurrences(PreOf(k)))
                                 ELSE 0])]_vars

\* the step just taken repeats the extraction before it: the same character,
\* the same response, and, where there was no text, the same outcome of the
\* call (not made, or failed)
RepeatedExtraction ==
    /\ ExtractStep
    /\ last.op = "extract_info_from_conversation"
    /\ last'.character = last.character
    /\ last'.arg = last.arg
    /\ last.arg = <<>> => last'.raised = last.raised

\* C22: an extraction that follows at once an extraction for the same
\* character with the same response, on the same date, leaves common_profile
\* and character_memories as the first one left them.
C22_ExtractionIdempotent ==
    [][RepeatedExtraction =>
          /\ profile'.common_profile = profile.common_profile
          /\ profile'.character_memories = profile.character_memories]_vars

\* the second of two extractions of one object: the like and the event the
\* first one inserted are there, and the second one saved nothing
C22_Witness ==
    /\ last.op = "extract_info_from_conversation"
    /\ steps = 2
    /\ Parses(last.arg)
    /\ last.saves = 0
    /\ InList(Parsed(last.arg).likes[1], Likes)
    /\ InList(content_with_timestamp(Now, Parsed(last.arg).events[1]),
              MemoriesOf(profile, last.character, "events"))

\* the transcript of the session is one of successful turns only
OnlySuccessfulTurns ==
    Len(messages) % 2 = 0 /\ messages = Alternating(Len(messages))

\* the turn brought the length of the transcript to or past a multiple of n
Reached(n) == \E m \in (Len(messages) + 1)..Len(messages') : m % n = 0

PositionIn(ran, x) == CHOOSE i \in 1..Len(ran) : ran[i] = x

\* C23, as claimed: in a sequence of successful turns from an empty
\* transcript, extraction is invoked once for every 5 messages accepted, in
\* the turn in which the length reaches the multiple of 5, and compaction once
\* for every 50; where both run, extraction runs first.
C23_CadenceEveryFive ==
    [][(TurnStep /\ last'.ret = "True" /\ OnlySuccessfulTurns) =>
          /\ InList("extract", last'.ran) <=> Reached(ExtractEvery)
          /\ InList("optimize", last'.ran) <=> Reached(OptimizeEvery)
          /\ (InList("extract", last'.ran) /\ InList("optimize", last'.ran)) =>
                 PositionIn(last'.ran, "extract") < PositionIn(last'.ran, "optimize")]_vars

\* the step just taken repeats the compaction before it
RepeatedCompaction ==
    /\ OptimizeStep
    /\ last.op = "optimize_memories"
    /\ last'.character = last.character

\* C24, as claimed: a compaction that follows at once a compaction of the same
\* character returns deleted 0 and summarized 0, makes no summarization call
\* and leaves the three lists as the first one left them.
C24_CompactionIdempotent ==
    [][RepeatedCompaction =>
          /\ last'.stats = [deleted |-> 0, summarized |-> 0]
          /\ \A k \in Kinds : last'.calls[k] = "none" /\ PostOf(k) = PreOf(k)]_vars

\* C25, as claimed: a session start whose load_profile fails while the store
\* holds a document leaves the stored document as it was.
C25_FailedLoadKeepsDocument ==
    [][(StartStep /\ last'.ret = "False" /\ db # <<>>) => db' = db]_vars

\* the mutators that report whether they changed anything
ReportingMutators ==
    {"delete_common_info", "add_common_preference", "delete_common_preference",
     "add_character_memory", "delete_all_character_memories"}

\* C26: a call of delete_common_info, add_common_preference,
\* delete_common_preference, add_character_memory or
\* delete_all_character_memories that returns False leaves the in-memory
\* Profile as it was and does not call save_profile.
C26_FailureChangesNothing ==
    [][(last'.op \in ReportingMutators /\ last'.ret = "False") =>
          /\ profile' = profile
          /\ db' = db
          /\ last'.saves = 0]_vars

\* the second call of the session was an add_character_memory that rejected
\* an event whose stamped text is not in the list: a near-duplicate
C26_Witness ==
    /\ last.op = "add_character_memory"
    /\ last.ret = "False"
    /\ steps = 2
    /\ last.saves = 0
    /\ TouchedList # <<>>
    /\ ~InList(content_with_timestamp(Now, last.arg), TouchedList)

\* the calls that name a character, and those of them that name a list
CharacterOps ==
    {"add_character_memory", "delete_character_memory",
     "delete_all_character_memories", "optimize_memories"}

ListOps == {"add_character_memory", "delete_character_memory"}

PreferenceOps == {"add_common_preference", "delete_common_preference"}

\* the buckets of the characters other than c
OtherBuckets(p, c) ==
    [d \in (DOMAIN p.character_memories) \ {c} |-> p.character_memories[d]]

\* C27: a call of add_character_memory, delete_character_memory,
\* delete_all_character_memories or optimize_memories for one character leaves
\* the bucket of every other character and the common profile as they were; an
\* add or a positional delete leaves the two other lists of the bucket as they
\* were; an add or a delete on one preference list leaves the other list,
\* basic_info and character_memories as they were.
C27_BucketsIsolated ==
    [][/\ last'.op \in CharacterOps =>
              /\ OtherBuckets(profile', last'.character)
                     = OtherBuckets(profile, last'.character)
              /\ profile'.common_profile = profile.common_profile
       /\ last'.op \in ListOps =>
              \A k \in Kinds \ {last'.memory_type} : PostOf(k) = PreOf(k)
       /\ last'.op \in PreferenceOps =>
              /\ \A t \in PreferenceTypes \ {last'.memory_type} :
                     profile'.common_profile.preferences[t]
                         = profile.common_profile.preferences[t]
              /\ profile'.common_profile.basic_info = profile.common_profile.basic_info
              /\ profile'.character_memories = profile.character_memories]_vars

\* a compaction folded the events of one character while another character
\* has a bucket with an event
C27_Witness ==
    /\ last.op = "optimize_memories"
    /\ last.stats.summarized > 0
    /\ \E c \in Characters \ {last.character} :
           MemoriesOf(profile, c, "events") # <<>>

\* the transcript alternates user and assistant entries, a user entry first,
\* an assistant entry after every user entry
Alternates(t) == Len(t) % 2 = 0 /\ t = Alternating(Len(t))

\* C28, as claimed: every persisted transcript alternates user and assistant
\* entries, starting with a user entry, whatever turns failed; so a chat turn
\* that finds the persisted transcripts alternating leaves them alternating.
C28_PersistedTranscriptsAlternate ==
    [][(TurnStep /\ \A c \in Characters : Alternates(conversations[c])) =>
          \A c \in Characters : Alternates(conversations'[c])]_vars

====
